---- MODULE Spec2Model ----
(***************************************************************************)
(* Model of the Autoppia Affine evaluation environment.                    *)
(*                                                                         *)
(* Two implementations of the service live in the repository:              *)
(*   "env"        src/env.py (+ src/utils.py): multi-task catalogue,       *)
(*                agent answers with an `actions` list;                    *)
(*   "affine_env" src/autoppia_affine/src/affine_env/env.py: single task,  *)
(*                agent answers with `navigate_url` and `done`.            *)
(* The variable `variant` says which one is deployed.                      *)
(*                                                                         *)
(* The stateful evaluator (reset/step/close, scoring), the HTTP client and *)
(* the agent are external: their results are nondeterministic choices.     *)
(***************************************************************************)
EXTENDS Integers, Sequences, FiniteSets, TLC

(***************************************************************************)
(* Bounds                                                                  *)
(***************************************************************************)
\* largest max_steps a request carries
MaxReqSteps == 2
\* number of success tests of a task: the evaluator reports
\* tests_passed in 0..TotalTests
TotalTests == 2
\* longest `actions` list an agent answers with
MaxActions == 2

(***************************************************************************)
(* Optional values: None is the empty sequence, a value v is <<v>>.        *)
(***************************************************************************)
None == <<>>
Some(v) == <<v>>

Variants == {"env", "affine_env"}

(***************************************************************************)
(* Default step ceiling                                                    *)
(***************************************************************************)
_DEFAULT_MAX_STEPS == 30

\* Values of the environment variable AUTOPPIA_AFFINE_MAX_STEPS:
\* None is "unset"; the others are the raw strings.
EnvValues == {None, Some(""), Some("abc"), Some("0"), Some("-4"), Some("2")}

\* int(raw): the strings int() accepts, with their values; any other string
\* raises ValueError.
IntLiterals == {<<"0", 0>>, <<"-4", 0 - 4>>, <<"2", 2>>}

IsIntLiteral(s) == \E p \in IntLiterals : p[1] = s

IntOf(s) == (CHOOSE p \in IntLiterals : p[1] = s)[2]

\* _get_default_max_steps(): os.getenv gives raw; `not raw` holds for None
\* and for the empty string.
_get_default_max_steps(raw) ==
    IF raw = None \/ raw = Some("")
    THEN _DEFAULT_MAX_STEPS
    ELSE IF ~IsIntLiteral(raw[1])
         THEN _DEFAULT_MAX_STEPS
         ELSE IF IntOf(raw[1]) > 0 THEN IntOf(raw[1]) ELSE _DEFAULT_MAX_STEPS

(***************************************************************************)
(* Task catalogue on disk                                                  *)
(***************************************************************************)
TaskIds == {"autobooks-demo-task-1", "autobooks-demo-task-2-invalid"}

\* A file: absent, present but not JSON, or a JSON document with a task list.
Missing == [exists |-> FALSE, json |-> FALSE, tasks |-> <<>>]
Garbage == [exists |-> TRUE, json |-> FALSE, tasks |-> <<>>]
File(ts) == [exists |-> TRUE, json |-> TRUE, tasks |-> ts]

OneTask == File(<<"autobooks-demo-task-1">>)
TwoTasks == File(<<"autobooks-demo-task-1", "autobooks-demo-task-2-invalid">>)
NoTasks == File(<<>>)

\* File systems the service is started on.  canonical is the file under the
\* repository's data directory; pkg, sibling and nested are the fallback
\* locations; pkg_ok says whether autoppia_iwa.__file__ resolves; writable
\* says whether the copy to the canonical location succeeds.
Fs(c, p, s, n, k, w) ==
    [canonical |-> c, pkg |-> p, sibling |-> s, nested |-> n,
     pkg_ok |-> k, writable |-> w]

FsStates ==
    { Fs(OneTask, Missing, Missing, Missing, TRUE, TRUE),
      Fs(TwoTasks, Missing, Missing, Missing, TRUE, TRUE),
      Fs(NoTasks, OneTask, Missing, Missing, TRUE, TRUE),
      Fs(Garbage, Missing, OneTask, Missing, TRUE, TRUE),
      Fs(Missing, Missing, Missing, Missing, TRUE, TRUE),
      Fs(Missing, OneTask, TwoTasks, Missing, TRUE, TRUE),
      Fs(Missing, OneTask, TwoTasks, Missing, FALSE, TRUE),
      Fs(Missing, Missing, Missing, OneTask, TRUE, TRUE),
      Fs(Missing, Missing, OneTask, Missing, TRUE, FALSE) }

\* The candidate list, in the order the loader builds it.
Candidates(v, f) ==
    (IF f.pkg_ok THEN <<f.pkg>> ELSE <<>>)
        \o (IF v = "env" THEN <<f.sibling>> ELSE <<f.sibling, f.nested>>)

ExistingIdx(cands) == {i \in 1..Len(cands) : cands[i].exists}

\* Variant of FirstExisting: the loop over the candidates does not stop at
\* the first hit, so the last existing candidate is taken.
FirstExisting_Last(cands) ==
    cands[CHOOSE i \in ExistingIdx(cands) : \A j \in ExistingIdx(cands) : i >= j]

\* First existing candidate (source_path); only used when there is one.
FirstExisting(cands) ==
    cands[CHOOSE i \in ExistingIdx(cands) : \A j \in ExistingIdx(cands) : i <= j]

\* _resolve_autobooks_tasks_path: ok says whether a path was returned, fs is
\* the file system afterwards.
_resolve_autobooks_tasks_path(v, f) ==
    IF f.canonical.exists
    THEN [ok |-> TRUE, fs |-> f]
    ELSE IF ExistingIdx(Candidates(v, f)) = {}
         THEN [ok |-> FALSE, fs |-> f]
         ELSE IF ~f.writable
              THEN [ok |-> FALSE, fs |-> f]
              ELSE [ok |-> TRUE,
                    fs |-> [f EXCEPT !.canonical = FirstExisting(Candidates(v, f))]]

\* Variant of load_autobooks_tasks: a catalogue that cannot be resolved,
\* parsed or is empty is replaced by a built-in demo task.
load_autobooks_tasks_Fallback(f) ==
    LET r == _resolve_autobooks_tasks_path("env", f)
        c == r.fs.canonical
    IN  IF ~r.ok \/ ~c.json \/ c.tasks = <<>>
        THEN [ok |-> TRUE, fs |-> r.fs, tasks |-> <<"autobooks-demo-task-1">>]
        ELSE [ok |-> TRUE, fs |-> r.fs, tasks |-> c.tasks]

\* load_autobooks_tasks (src/utils.py): every task of the canonical file.
load_autobooks_tasks(f) ==
    LET r == _resolve_autobooks_tasks_path("env", f)
        c == r.fs.canonical
    IN  IF ~r.ok \/ ~c.json \/ c.tasks = <<>>
        THEN [ok |-> FALSE, fs |-> r.fs, tasks |-> <<>>]
        ELSE [ok |-> TRUE, fs |-> r.fs, tasks |-> c.tasks]

\* _load_autobooks_task (affine_env): exactly one task is expected.
_load_autobooks_task(f) ==
    LET r == _resolve_autobooks_tasks_path("affine_env", f)
        c == r.fs.canonical
    IN  IF ~r.ok \/ ~c.json \/ Len(c.tasks) # 1
        THEN [ok |-> FALSE, fs |-> r.fs, tasks |-> <<>>]
        ELSE [ok |-> TRUE, fs |-> r.fs, tasks |-> c.tasks]

\* [t for t in tasks if t.id == task_id]
RECURSIVE FilterById(_, _)
FilterById(ts, id) ==
    IF ts = <<>> THEN <<>>
    ELSE (IF Head(ts) = id THEN <<Head(ts)>> ELSE <<>>) \o FilterById(Tail(ts), id)

(***************************************************************************)
(* Requests                                                                *)
(***************************************************************************)
\* EvaluateRequest: max_steps is None or an integer, task_id is None or a
\* string (the affine_env request has no task_id field).
ReqMaxSteps == {None} \cup {Some(n) : n \in (0 - 1)..MaxReqSteps}

ReqTaskIds == {None} \cup {Some(t) : t \in TaskIds \cup {"no-such-task"}}

Requests(v) ==
    [max_steps : ReqMaxSteps,
     task_id : IF v = "env" THEN ReqTaskIds ELSE {None}]

\* request.max_steps or _max_steps: None and 0 are falsy.
EffectiveMaxSteps(req, dflt) ==
    IF req.max_steps = None \/ req.max_steps = Some(0)
    THEN dflt
    ELSE req.max_steps[1]

(***************************************************************************)
(* Scores                                                                  *)
(***************************************************************************)
\* ScoreDetails(): the default record.  raw_score counts in units of
\* 1/TotalTests, so raw_score = TotalTests is the score 1.0.
ScoreDetails ==
    [raw_score |-> 0, success |-> FALSE, tests_passed |-> 0, total_tests |-> 0]

\* The ScoreDetails an evaluator reset or step can report for a task with
\* TotalTests tests: success when every test passed.
EvalScores ==
    {[raw_score |-> p, success |-> (p = TotalTests),
      tests_passed |-> p, total_tests |-> TotalTests] : p \in 0..TotalTests}

\* Result of evaluator.reset() / evaluator.step(): it raises, or it returns
\* a score (the snapshot is forwarded to the agent unread and is left out).
EvalResults ==
    {[raises |-> TRUE, score |-> ScoreDetails]}
        \cup {[raises |-> FALSE, score |-> sc] : sc \in EvalScores}

(***************************************************************************)
(* Agent responses                                                         *)
(***************************************************************************)
\* Entries of an `actions` list: a JSON value that is not an object, an
\* object BaseAction.create_action rejects, and two well-formed actions.
Entries == {"not-a-dict", "UnknownAction", "ClickAction", "WaitAction"}

ValidActions == {"ClickAction", "WaitAction", "NavigateAction"}

\* evaluator.step(None)
NOOP == "NOOP"

\* StatefulEvaluator(task=task, web_agent_id="1"): the fixed id under which
\* the demo web backend groups the events of a session.
web_agent_id == "1"

ActionLists == UNION {[1..n -> Entries] : n \in 0..MaxActions}

\* The `actions` member of a body: absent, null, a number, or a list.
ActAbsent == [kind |-> "absent", items |-> <<>>]
ActNull == [kind |-> "null", items |-> <<>>]
ActNumber == [kind |-> "number", items |-> <<>>]
ActList(l) == [kind |-> "list", items |-> l]

Body(o, a, s, n, d) ==
    [isobj |-> o, actions |-> a, action |-> s, navigate_url |-> n, done |-> d]

\* JSON bodies an agent answers with: the `actions` shape of src/model/app.py,
\* the `navigate_url` shape of src/affine/miner/app.py, a single `action`,
\* bodies with none of them, and a JSON value that is not an object.
AgentBodies ==
    {Body(TRUE, ActList(l), "absent", "absent", "false") : l \in ActionLists}
    \cup {Body(TRUE, ActList(l), "absent", "absent", "true") :
            l \in {m \in ActionLists : Len(m) <= 1}}
    \cup {Body(TRUE, a, "absent", "absent", "absent") : a \in {ActNull, ActNumber}}
    \cup {Body(TRUE, ActAbsent, "absent", u, d) :
            u \in {"absent", "null", "", "http://target"},
            d \in {"absent", "false", "true"}}
    \cup {Body(TRUE, ActAbsent, "ClickAction", "absent", "false")}
    \cup {Body(FALSE, ActAbsent, "absent", "absent", "absent")}

EmptyBody == Body(TRUE, ActAbsent, "absent", "absent", "absent")

\* Outcome of session.post + raise_for_status + resp.json().
AgentOutcomes ==
    {[kind |-> k, body |-> EmptyBody] :
        k \in {"transport_error", "http_status", "bad_json"}}
    \cup {[kind |-> "ok", body |-> b] : b \in AgentBodies}

\* Variant of ParseActions: the first entry that cannot be parsed ends the
\* loop over raw_actions.
RECURSIVE ParseActions_StopAtBad(_)
ParseActions_StopAtBad(raw_actions) ==
    IF raw_actions = <<>> THEN <<>>
    ELSE LET raw == Head(raw_actions)
         IN  IF raw = "not-a-dict" \/ raw \notin ValidActions THEN <<>>
             ELSE <<raw>> \o ParseActions_StopAtBad(Tail(raw_actions))

\* The loop over raw_actions of src/env.py: entries that are not dicts are
\* skipped, entries create_action rejects are skipped, the rest is kept in
\* order.
RECURSIVE ParseActions(_)
ParseActions(raw_actions) ==
    IF raw_actions = <<>> THEN <<>>
    ELSE LET raw == Head(raw_actions)
             rest == ParseActions(Tail(raw_actions))
         IN  IF raw = "not-a-dict" THEN rest
             ELSE IF raw \notin ValidActions THEN rest
             ELSE <<raw>> \o rest

\* base_action = actions[0] if actions else None
FirstOrNone(actions) == IF actions = <<>> THEN NOOP ELSE Head(actions)

(***************************************************************************)
(* State                                                                   *)
(***************************************************************************)
VARIABLES
    variant,        \* which implementation is deployed
    environ,        \* AUTOPPIA_AFFINE_MAX_STEPS in os.environ, None if unset
    _max_steps,     \* module-level default, resolved once at import
    fs,             \* the task files on disk
    request,        \* the /evaluate request being served
    pc,             \* handler position: "idle", "running", "responded"
    status,         \* HTTP status of the response, 0 before it is sent
    max_steps,      \* the handler's local max_steps
    tasks,          \* the selected tasks
    task_i,         \* index in tasks of the task handed to the worker
    details,        \* TaskEvaluationDetail records collected so far
    response,       \* the EvaluateResponse of a 200 answer, None before
    lpc,            \* worker position: "idle", "start", "while", "post",
                    \* "step", "finally", "returned", "raised"
    step_index,     \* the loop's step counter
    done,           \* the loop's done flag
    score,          \* last ScoreDetails
    evaluator,      \* calls made on the evaluator session of this task
    session,        \* agent HTTP client: "unbound", "open", "closed"
    agent_calls,    \* requests sent to the agent for this task
    last,           \* what the current loop iteration saw and did
    hist,           \* facts about all iterations of this task so far
    result,         \* detail built by the return statement, None before
    slots,          \* concurrent /evaluate requests, one record per slot
    heap,           \* evaluator sessions and HTTP clients constructed so far
    backend,        \* demo web backend: per web_agent_id, who wrote events
    health          \* the latest answer of GET /health, None before

svcVars == <<variant, environ, _max_steps, fs, request, pc, status, max_steps, tasks,
             task_i, details, response>>

loopVars == <<lpc, step_index, done, score, evaluator, session, agent_calls,
              last, hist, result>>

concVars == <<slots, heap, backend, health>>

vars == <<svcVars, loopVars, concVars>>

NoEvaluator == [created |-> FALSE, resets |-> 0, steps |-> 0, closes |-> 0]

NoRequest == [max_steps |-> None, task_id |-> None]

\* last: the agent outcome of the current iteration ("none" before the agent
\* answered), the action handed to evaluator.step ("none" when no step was
\* made), whether the iteration left the loop with an exception, and the
\* step_index the request to the agent carried (-1 before it was sent).
NoLast ==
    [agent |-> "none", body |-> EmptyBody, applied |-> "none", aborted |-> FALSE,
     sent |-> 0 - 1]

\* hist: whether the evaluator reported success at some step, whether every
\* agent call was a transport error, whether every step was a NOOP.
NoHist == [ever_success |-> FALSE, all_unreachable |-> TRUE, all_noop |-> TRUE]

\* Loop-local state before _evaluate_task_with_remote_agent_sync runs.
LoopIdle(p) ==
    /\ lpc' = p
    /\ step_index' = 0
    /\ done' = FALSE
    /\ score' = ScoreDetails
    /\ evaluator' = NoEvaluator
    /\ session' = "unbound"
    /\ agent_calls' = 0
    /\ last' = NoLast
    /\ hist' = NoHist
    /\ result' = None

\* Largest number of /evaluate requests in flight at once.
NumRequests == 2

Slots == 1..NumRequests

\* A slot before its request arrives.  evaluator and session are indices
\* into heap, 0 when the name is unbound; agent is the outcome of the agent
\* call the iteration is working on.
IdleSlot ==
    [pc |-> "idle", status |-> 0, max_steps |-> 0, tasks |-> <<>>,
     task_i |-> 0, ndetails |-> 0, lpc |-> "idle", step_index |-> 0,
     done |-> FALSE, agent |-> None, returned |-> FALSE,
     evaluator |-> 0, session |-> 0]

\* The service before any concurrent request: nothing constructed, no
\* backend event written, /health not yet asked.
ConcIdle ==
    /\ slots = [r \in Slots |-> IdleSlot]
    /\ heap = <<>>
    /\ backend = [g \in {web_agent_id} |-> {}]
    /\ health = None

\* Some file of f lists tasks.
HasTasks(f) == \E x \in {f.canonical, f.pkg, f.sibling, f.nested} : x.tasks # <<>>

\* Deployments: a catalogue of two tasks is served with the step ceiling
\* overridden by the environment, which keeps the two loops of one request
\* short; a file system with a one-task file is run with the variable unset
\* and with the override; the file system without any task file, where no
\* loop runs, is run under every value of the variable.
Deployments ==
    {d \in [raw : EnvValues, fs : FsStates] :
        /\ (TwoTasks \in {d.fs.canonical, d.fs.pkg, d.fs.sibling, d.fs.nested})
              => d.raw = Some("2")
        /\ HasTasks(d.fs) => d.raw \in {None, Some("2")}}

Init ==
    /\ variant \in Variants
    /\ \E d \in Deployments :
          /\ environ = d.raw
          /\ _max_steps = _get_default_max_steps(d.raw)
          /\ fs = d.fs
    /\ request = NoRequest
    /\ pc = "idle"
    /\ status = 0
    /\ max_steps = 0
    /\ tasks = <<>>
    /\ task_i = 0
    /\ details = <<>>
    /\ response = None
    /\ lpc = "idle"
    /\ step_index = 0
    /\ done = FALSE
    /\ score = ScoreDetails
    /\ evaluator = NoEvaluator
    /\ session = "unbound"
    /\ agent_calls = 0
    /\ last = NoLast
    /\ hist = NoHist
    /\ result = None
    /\ ConcIdle

(***************************************************************************)
(* POST /evaluate: the handler up to its first await                       *)
(***************************************************************************)
\* raise HTTPException(status_code=code)
Respond(code) ==
    /\ pc' = "responded"
    /\ status' = code

\* The catalogue load of the deployed variant.
LoadTasks(v, f) ==
    IF v = "env" THEN load_autobooks_tasks(f) ELSE _load_autobooks_task(f)

\* Variant of Selected: a filter that matches nothing is dropped and the
\* whole catalogue is evaluated.
Selected_AllWhenNoMatch(v, req, ts) ==
    IF v = "env" /\ req.task_id # None /\ FilterById(ts, req.task_id[1]) # <<>>
    THEN FilterById(ts, req.task_id[1])
    ELSE ts

\* The task_id filter (src/env.py only).
Selected(v, req, ts) ==
    IF v = "env" /\ req.task_id # None THEN FilterById(ts, req.task_id[1]) ELSE ts

\* Variant of evaluate: the catalogue is loaded and filtered before
\* max_steps is looked at.
evaluate_LoadFirst(req) ==
    /\ pc = "idle"
    /\ request' = req
    /\ LET ms == EffectiveMaxSteps(req, _max_steps)
           ld == LoadTasks(variant, fs)
           sel == Selected(variant, req, ld.tasks)
       IN  /\ max_steps' = ms
           /\ fs' = ld.fs
           /\ IF ~ld.ok \/ ld.tasks = <<>> \/ sel = <<>> \/ ms <= 0
              THEN /\ Respond(IF ~ld.ok \/ ld.tasks = <<>> THEN 500
                              ELSE IF sel = <<>> THEN 404 ELSE 400)
                   /\ UNCHANGED <<tasks, task_i>>
                   /\ UNCHANGED loopVars
              ELSE /\ tasks' = sel
                   /\ task_i' = 1
                   /\ pc' = "running"
                   /\ UNCHANGED status
                   /\ LoopIdle("start")
    /\ UNCHANGED <<variant, environ, _max_steps, details, response>>
    /\ UNCHANGED concVars

\* POST /evaluate up to its first await: the max_steps check, the catalogue
\* load, the task_id filter, then the first task is handed to the worker.
evaluate(req) ==
    /\ pc = "idle"
    /\ request' = req
    /\ LET ms == EffectiveMaxSteps(req, _max_steps)
           ld == LoadTasks(variant, fs)
           sel == Selected(variant, req, ld.tasks)
       IN  /\ max_steps' = ms
           /\ IF ms <= 0
              THEN /\ Respond(400)
                   /\ UNCHANGED <<fs, tasks, task_i>>
                   /\ UNCHANGED loopVars
              ELSE IF ~ld.ok
              THEN /\ Respond(500)
                   /\ fs' = ld.fs
                   /\ UNCHANGED <<tasks, task_i>>
                   /\ UNCHANGED loopVars
              ELSE IF ld.tasks = <<>>
              THEN /\ Respond(500)
                   /\ fs' = ld.fs
                   /\ UNCHANGED <<tasks, task_i>>
                   /\ UNCHANGED loopVars
              ELSE IF sel = <<>>
              THEN /\ Respond(404)
                   /\ fs' = ld.fs
                   /\ UNCHANGED <<tasks, task_i>>
                   /\ UNCHANGED loopVars
              ELSE /\ fs' = ld.fs
                   /\ tasks' = sel
                   /\ task_i' = 1
                   /\ pc' = "running"
                   /\ UNCHANGED status
                   /\ LoopIdle("start")
    /\ UNCHANGED <<variant, environ, _max_steps, details, response>>
    /\ UNCHANGED concVars

(***************************************************************************)
(* _evaluate_task_with_remote_agent_sync, run by the worker                *)
(***************************************************************************)
\* Constructors and evaluator.reset().  src/env.py opens the HTTP client
\* before the try block; affine_env opens it inside, after the reset.
LoopStart ==
    /\ lpc = "start"
    /\ \E ctor_ok \in BOOLEAN, first \in EvalResults :
          IF ~ctor_ok
          THEN /\ lpc' = "raised"
               /\ UNCHANGED <<evaluator, session, score, done>>
          ELSE /\ evaluator' = [evaluator EXCEPT !.created = TRUE, !.resets = @ + 1]
               /\ IF first.raises
                  THEN /\ lpc' = "finally"
                       /\ session' = IF variant = "env" THEN "open" ELSE "unbound"
                       /\ UNCHANGED <<score, done>>
                  ELSE /\ lpc' = "while"
                       /\ session' = "open"
                       /\ score' = first.score
                       /\ done' = FALSE
    /\ UNCHANGED <<step_index, agent_calls, last, hist, result>>
    /\ UNCHANGED svcVars
    /\ UNCHANGED concVars

\* Variant of ProposeEnv: a navigate_url field is turned into a navigate
\* action when the body has no usable actions list.
ProposeEnv_NavigateUrl(ao) ==
    LET resp_data == IF ao.kind = "ok" THEN ao.body ELSE EmptyBody
        raw_actions == IF resp_data.actions.kind = "list"
                       THEN resp_data.actions.items ELSE <<>>
    IN  IF ~resp_data.isobj
        THEN [raises |-> TRUE, action |-> "none"]
        ELSE IF resp_data.actions.kind = "number"
        THEN [raises |-> TRUE, action |-> "none"]
        ELSE IF ParseActions(raw_actions) = <<>>
                /\ resp_data.navigate_url = "http://target"
        THEN [raises |-> FALSE, action |-> "NavigateAction"]
        ELSE [raises |-> FALSE, action |-> FirstOrNone(ParseActions(raw_actions))]

\* src/env.py: a failed call leaves resp_data = {}; resp_data.get raises on
\* a body that is not an object, the for loop raises on an actions value
\* that cannot be iterated.
ProposeEnv(ao) ==
    LET resp_data == IF ao.kind = "ok" THEN ao.body ELSE EmptyBody
        raw_actions == IF resp_data.actions.kind = "list"
                       THEN resp_data.actions.items ELSE <<>>
    IN  IF ~resp_data.isobj
        THEN [raises |-> TRUE, action |-> "none"]
        ELSE IF resp_data.actions.kind = "number"
        THEN [raises |-> TRUE, action |-> "none"]
        ELSE [raises |-> FALSE, action |-> FirstOrNone(ParseActions(raw_actions))]

\* affine_env has no try/except around the agent call: a failed call raises
\* (the exception of session.post, raise_for_status or resp.json()), and so
\* does a body without a navigate_url.
ProposeAffine(ao) ==
    IF ao.kind # "ok"
    THEN [raises |-> TRUE, action |-> "none"]
    ELSE IF ~ao.body.isobj
    THEN [raises |-> TRUE, action |-> "none"]
    ELSE IF ao.body.navigate_url \in {"absent", "null", ""}
    THEN [raises |-> TRUE, action |-> "none"]
    ELSE [raises |-> FALSE, action |-> "NavigateAction"]

\* What one iteration makes of the agent's outcome before it steps the
\* evaluator: it raises, or it has the action to apply (NOOP for None).
Propose(v, ao) == IF v = "env" THEN ProposeEnv(ao) ELSE ProposeAffine(ao)

\* Variant of DoneEnv: the agent's done flag is honoured too.
DoneEnv_AgentFlag(sc, body) == sc.success \/ body.done = "true"

\* The done flag after a step.
DoneEnv(sc, body) == sc.success

DoneAffine(sc, body) == sc.success \/ body.done = "true"

DoneAfter(v, sc, body) == IF v = "env" THEN DoneEnv(sc, body) ELSE DoneAffine(sc, body)

\* Variant of LoopCondition: the done flag is not consulted.
LoopCondition_IgnoreDone(si, ms, d) == si < ms

\* Variant of LoopCondition: the ceiling is inclusive.
LoopCondition_Inclusive(si, ms, d) == si <= ms /\ ~d

\* while step_index < max_steps and not done
LoopCondition(si, ms, d) == si < ms /\ ~d

\* Variant of PayloadStepIndex: the payload counts steps from 1.
PayloadStepIndex_OneBased(si) == si + 1

\* payload = {..., "step_index": step_index, ...}
PayloadStepIndex(si) == si

\* The while condition is true: an iteration begins.
LoopEnter ==
    /\ lpc = "while"
    /\ LoopCondition(step_index, max_steps, done)
    /\ lpc' = "post"
    /\ last' = NoLast
    /\ UNCHANGED <<step_index, done, score, evaluator, session, agent_calls,
                   hist, result>>
    /\ UNCHANGED svcVars
    /\ UNCHANGED concVars

\* session.post, raise_for_status and resp.json(): the agent's outcome.
AgentCall ==
    /\ lpc = "post"
    /\ \E ao \in AgentOutcomes :
          /\ last' = [agent |-> ao.kind, body |-> ao.body,
                      applied |-> "none", aborted |-> FALSE,
                      sent |-> PayloadStepIndex(step_index)]
          /\ hist' = [hist EXCEPT !.all_unreachable =
                            @ /\ ao.kind = "transport_error"]
    /\ agent_calls' = agent_calls + 1
    /\ lpc' = "step"
    /\ UNCHANGED <<step_index, done, score, evaluator, session, result>>
    /\ UNCHANGED svcVars
    /\ UNCHANGED concVars

\* The rest of the iteration: the outcome is turned into an action (or an
\* exception), the evaluator is stepped, score, done and step_index are
\* updated.
Step ==
    /\ lpc = "step"
    /\ LET pr == Propose(variant, [kind |-> last.agent, body |-> last.body])
       IN  IF pr.raises
           THEN /\ lpc' = "finally"
                /\ last' = [last EXCEPT !.aborted = TRUE]
                /\ UNCHANGED <<evaluator, score, done, step_index, hist>>
           ELSE /\ evaluator' = [evaluator EXCEPT !.steps = @ + 1]
                /\ \E er \in EvalResults :
                      IF er.raises
                      THEN /\ lpc' = "finally"
                           /\ last' = [last EXCEPT !.applied = pr.action,
                                                   !.aborted = TRUE]
                           /\ UNCHANGED <<score, done, step_index, hist>>
                      ELSE /\ lpc' = "while"
                           /\ score' = er.score
                           /\ done' = DoneAfter(variant, er.score, last.body)
                           /\ step_index' = step_index + 1
                           /\ last' = [last EXCEPT !.applied = pr.action]
                           /\ hist' = [hist EXCEPT
                                         !.ever_success = @ \/ er.score.success,
                                         !.all_noop = @ /\ pr.action = NOOP]
    /\ UNCHANGED <<session, agent_calls, result>>
    /\ UNCHANGED svcVars
    /\ UNCHANGED concVars

\* TaskEvaluationDetail(...) of the return statement.
Detail(task, sc, steps) ==
    [task_id |-> task, project_id |-> "autobooks",
     score |-> sc.raw_score, raw_score |-> sc.raw_score,
     success |-> sc.success, tests_passed |-> sc.tests_passed,
     total_tests |-> sc.total_tests, steps |-> steps]

\* The while condition is false: build the detail, enter the finally block.
LoopExit ==
    /\ lpc = "while"
    /\ ~LoopCondition(step_index, max_steps, done)
    /\ result' = Some(Detail(tasks[task_i], score, step_index))
    /\ lpc' = "finally"
    /\ UNCHANGED <<step_index, done, score, evaluator, session, agent_calls,
                   last, hist>>
    /\ UNCHANGED svcVars
    /\ UNCHANGED concVars

\* Variant of FinallyBlock: session.close() is not guarded, so its failure
\* skips evaluator.close().
FinallyBlock_Unguarded(sess, sess_fails, ev_fails) ==
    [session |-> IF sess = "unbound" THEN "unbound" ELSE "closed",
     released |-> ~sess_fails,
     raised |-> sess_fails \/ ev_fails]

\* The finally block: session.close() inside try/except Exception: pass,
\* then evaluator.close().  sess_fails: session.close() raises (always so
\* when the name `session` is unbound); ev_fails: evaluator.close() raises.
\* released: evaluator.close() was called; raised: the block raises.
FinallyBlock(sess, sess_fails, ev_fails) ==
    [session |-> IF sess = "unbound" THEN "unbound" ELSE "closed",
     released |-> TRUE,
     raised |-> ev_fails]

Finally ==
    /\ lpc = "finally"
    /\ \E close_fails \in BOOLEAN, ev_fails \in BOOLEAN :
          LET fb == FinallyBlock(session, close_fails \/ session = "unbound", ev_fails)
          IN  /\ session' = fb.session
              /\ evaluator' = IF fb.released
                              THEN [evaluator EXCEPT !.closes = @ + 1]
                              ELSE evaluator
              /\ lpc' = IF fb.raised \/ result = None THEN "raised" ELSE "returned"
    /\ UNCHANGED <<step_index, done, score, agent_calls, last, hist, result>>
    /\ UNCHANGED svcVars
    /\ UNCHANGED concVars

(***************************************************************************)
(* POST /evaluate: the handler after an await                              *)
(***************************************************************************)
\* Python's sum over the score fields of a list of details.
RECURSIVE SumScores(_)
SumScores(ds) ==
    IF ds = <<>> THEN 0 ELSE Head(ds).score + SumScores(Tail(ds))

\* Variant of total_score: the mean of the scores.
total_score_Mean(ds) ==
    IF ds = <<>> THEN 0 ELSE SumScores(ds) \div Len(ds)

\* total_score = sum(d.score for d in details), in units of 1/TotalTests.
total_score(ds) == SumScores(ds)

\* sum(1 for d in details if d.success)
RECURSIVE successes(_)
successes(ds) ==
    IF ds = <<>> THEN 0
    ELSE (IF Head(ds).success THEN 1 ELSE 0) + successes(Tail(ds))

\* success_rate = successes / len(details) if details else 0.0, as the
\* fraction <<numerator, denominator>>; 0.0 is <<0, 1>>.
success_rate(ds) ==
    IF ds # <<>> THEN <<successes(ds), Len(ds)>> ELSE <<0, 1>>

\* EvaluateResponse(total_score=..., success_rate=..., evaluated=len(details),
\* details=details)
EvaluateResponse(ds) ==
    [total_score |-> total_score(ds), success_rate |-> success_rate(ds),
     evaluated |-> Len(ds), details |-> ds]

\* Variant of Awaited: the handler goes on as soon as the loop has built
\* its detail, before the finally block has run.
Awaited_BeforeCleanup(l) == l = "returned" \/ (l = "finally" /\ result # None)

\* detail = await loop.run_in_executor(...): the handler resumes when the
\* call on the worker has returned.
Awaited(l) == l = "returned"

\* run_in_executor returned: append the detail, hand the next task to the
\* worker or send the response.
TaskReturned ==
    /\ pc = "running"
    /\ Awaited(lpc)
    /\ details' = Append(details, result[1])
    /\ IF task_i < Len(tasks)
       THEN /\ task_i' = task_i + 1
            /\ LoopIdle("start")
            /\ UNCHANGED <<pc, status, response>>
       ELSE /\ Respond(200)
            /\ response' = Some(EvaluateResponse(details'))
            /\ UNCHANGED task_i
            /\ UNCHANGED loopVars
    /\ UNCHANGED <<variant, environ, _max_steps, fs, request, max_steps, tasks>>
    /\ UNCHANGED concVars

\* run_in_executor raised: the exception leaves the handler, the framework
\* answers 500.
TaskRaised ==
    /\ pc = "running"
    /\ lpc = "raised"
    /\ Respond(500)
    /\ UNCHANGED <<variant, environ, _max_steps, fs, request, max_steps, tasks, task_i,
                   details, response>>
    /\ UNCHANGED loopVars
    /\ UNCHANGED concVars

Next ==
    \/ \E req \in Requests(variant) : evaluate(req)
    \/ LoopStart
    \/ LoopEnter
    \/ AgentCall
    \/ Step
    \/ LoopExit
    \/ Finally
    \/ TaskReturned
    \/ TaskRaised

Spec == Init /\ [][Next]_vars

(***************************************************************************)
(* Concurrent requests                                                     *)
(*                                                                         *)
(* ConcSpec runs up to NumRequests /evaluate requests at once, next to GET *)
(* /health.  Handler code between two awaits runs on the event loop and is *)
(* one action; each loop runs on an executor thread and interleaves with   *)
(* everything else at its external calls.  A slot keeps the control state  *)
(* of its request and the objects its loop holds; scores are left to Spec. *)
(***************************************************************************)
reqVars == <<request, pc, status, max_steps, tasks, task_i, details, response>>

\* File systems and environment of the concurrent runs: one-task catalogues
\* and failing ones, with the ceiling overridden to 2.
ConcDeployments ==
    {d \in Deployments :
        /\ d.raw = Some("2")
        /\ TwoTasks \notin {d.fs.canonical, d.fs.pkg, d.fs.sibling, d.fs.nested}}

ConcInit ==
    /\ Init
    /\ \E d \in ConcDeployments :
          /\ environ = d.raw
          /\ fs = d.fs

\* Requests of the concurrent runs: a rejected max_steps and a one-step
\* ceiling, with every task_id.
ConcRequests(v) ==
    {req \in Requests(v) : req.max_steps \in {Some(0 - 1), Some(1)}}

\* Agent outcomes of the concurrent runs: an unreachable agent, an `actions`
\* answer and a `navigate_url` answer.
ConcAgentOutcomes ==
    {ao \in AgentOutcomes :
        \/ ao.kind = "transport_error"
        \/ /\ ao.kind = "ok"
           /\ ao.body \in
                {Body(TRUE, ActList(<<"ClickAction">>), "absent", "absent", "false"),
                 Body(TRUE, ActAbsent, "absent", "http://target", "true")}}

\* Evaluator results of the concurrent runs: an exception, no test passed,
\* every test passed.
ConcEvalResults ==
    {er \in EvalResults : er.raises \/ er.score.tests_passed \in {0, TotalTests}}

\* An object constructed by loop invocation inv = <<slot, task index>>.
Object(kind, inv) ==
    [kind |-> kind, owner |-> inv, users |-> {inv}, open |-> TRUE,
     group |-> IF kind = "evaluator" THEN web_agent_id ELSE "none"]

\* StatefulEvaluator(...): a constructor call yields a new object.
StatefulEvaluator(h) == Len(h) + 1

\* httpx.Client(timeout=60.0): a constructor call yields a new object.
httpx_Client(h) == Len(h) + 1

\* The name is bound to object id: a new object is added to the heap, an
\* existing one gets one more user.
Bind(h, id, kind, inv) ==
    IF id > Len(h) THEN Append(h, Object(kind, inv))
    ELSE [h EXCEPT ![id].users = @ \cup {inv}, ![id].open = TRUE]

\* A method of object id is called by invocation inv (no object when the
\* name is unbound).
Use(h, id, inv) ==
    IF id = 0 THEN h ELSE [h EXCEPT ![id].users = @ \cup {inv}]

Close(h, id, inv) ==
    IF id = 0 THEN h
    ELSE [h EXCEPT ![id].users = @ \cup {inv}, ![id].open = FALSE]

\* The evaluator session of invocation inv acts on the demo web under its
\* web_agent_id: the backend files the events under that id.
BackendWrite(b, h, id, inv) == [b EXCEPT ![h[id].group] = @ \cup {inv}]

Inv(r) == <<r, slots[r].task_i>>

\* Variant of LoopContext: the handler calls the loop directly.
LoopContext_Inline == "handler"

\* loop.run_in_executor(None, _evaluate_task_with_remote_agent_sync, ...):
\* the loop runs on a thread of the default executor.
LoopContext == "worker"

LoopRunning(r) == slots[r].lpc \in {"start", "while", "post", "step", "finally"}

\* The event loop is inside a call that has not returned.
HandlerBlocked == LoopContext = "handler" /\ \E r \in Slots : LoopRunning(r)

SetSlot(r, rec) == slots' = [slots EXCEPT ![r] = rec]

\* GET /health.  loops records how many loops were running when the
\* answer was sent.
Health ==
    /\ ~HandlerBlocked
    /\ health' = Some([status_code |-> 200, body |-> [status |-> "ok"],
                       loops |-> Cardinality({r \in Slots : LoopRunning(r)})])
    /\ UNCHANGED <<slots, heap, backend>>
    /\ UNCHANGED <<variant, environ, _max_steps, fs, reqVars, loopVars>>

\* POST /evaluate up to its first await; slots are taken in arrival order.
ConcEvaluate(r, req) ==
    /\ slots[r].pc = "idle"
    /\ \A q \in Slots : q < r => slots[q].pc # "idle"
    /\ ~HandlerBlocked
    /\ LET ms == EffectiveMaxSteps(req, _max_steps)
           ld == LoadTasks(variant, fs)
           sel == Selected(variant, req, ld.tasks)
           answer(code) == [slots[r] EXCEPT !.pc = "responded", !.status = code,
                                            !.max_steps = ms]
       IN  IF ms <= 0
           THEN SetSlot(r, answer(400)) /\ UNCHANGED fs
           ELSE IF ~ld.ok \/ ld.tasks = <<>>
           THEN SetSlot(r, answer(500)) /\ fs' = ld.fs
           ELSE IF sel = <<>>
           THEN SetSlot(r, answer(404)) /\ fs' = ld.fs
           ELSE /\ SetSlot(r, [slots[r] EXCEPT !.pc = "running", !.max_steps = ms,
                                               !.tasks = sel, !.task_i = 1,
                                               !.lpc = "start"])
                /\ fs' = ld.fs
    /\ UNCHANGED <<heap, backend, health>>
    /\ UNCHANGED <<variant, environ, _max_steps, reqVars, loopVars>>

ConcUnchanged == UNCHANGED <<variant, environ, _max_steps, fs, reqVars, loopVars, health>>

\* Constructors and evaluator.reset() of the loop in slot r.
ConcLoopStart(r) ==
    /\ slots[r].lpc = "start"
    /\ \E ctor_ok \in BOOLEAN, first \in ConcEvalResults :
          IF ~ctor_ok
          THEN /\ SetSlot(r, [slots[r] EXCEPT !.lpc = "raised"])
               /\ UNCHANGED <<heap, backend>>
          ELSE LET ev == StatefulEvaluator(heap)
                   h1 == Bind(heap, ev, "evaluator", Inv(r))
                   early == variant = "env"
                   opened == early \/ ~first.raises
                   cl == IF opened THEN httpx_Client(h1) ELSE 0
                   h2 == IF opened THEN Bind(h1, cl, "client", Inv(r)) ELSE h1
               IN  /\ heap' = h2
                   /\ backend' = BackendWrite(backend, h2, ev, Inv(r))
                   /\ SetSlot(r, [slots[r] EXCEPT
                                    !.evaluator = ev, !.session = cl,
                                    !.done = FALSE,
                                    !.lpc = IF first.raises THEN "finally"
                                            ELSE "while"])
    /\ ConcUnchanged

ConcLoopEnter(r) ==
    /\ slots[r].lpc = "while"
    /\ LoopCondition(slots[r].step_index, slots[r].max_steps, slots[r].done)
    /\ SetSlot(r, [slots[r] EXCEPT !.lpc = "post"])
    /\ UNCHANGED <<heap, backend>>
    /\ ConcUnchanged

\* session.post(...) on the client the loop holds.
ConcAgentCall(r) ==
    /\ slots[r].lpc = "post"
    /\ \E ao \in ConcAgentOutcomes :
          SetSlot(r, [slots[r] EXCEPT !.agent = Some(ao), !.lpc = "step"])
    /\ heap' = Use(heap, slots[r].session, Inv(r))
    /\ UNCHANGED backend
    /\ ConcUnchanged

\* The rest of the iteration; evaluator.step on the session the loop holds.
ConcStep(r) ==
    /\ slots[r].lpc = "step"
    /\ LET ao == slots[r].agent[1]
           pr == Propose(variant, ao)
       IN  IF pr.raises
           THEN /\ SetSlot(r, [slots[r] EXCEPT !.agent = None, !.lpc = "finally"])
                /\ UNCHANGED <<heap, backend>>
           ELSE /\ heap' = Use(heap, slots[r].evaluator, Inv(r))
                /\ backend' = BackendWrite(backend, heap, slots[r].evaluator, Inv(r))
                /\ \E er \in ConcEvalResults :
                      IF er.raises
                      THEN SetSlot(r, [slots[r] EXCEPT !.agent = None,
                                                      !.lpc = "finally"])
                      ELSE SetSlot(r, [slots[r] EXCEPT
                                        !.agent = None,
                                        !.lpc = "while",
                                        !.done = DoneAfter(variant, er.score, ao.body),
                                        !.step_index = @ + 1])
    /\ ConcUnchanged

ConcLoopExit(r) ==
    /\ slots[r].lpc = "while"
    /\ ~LoopCondition(slots[r].step_index, slots[r].max_steps, slots[r].done)
    /\ SetSlot(r, [slots[r] EXCEPT !.returned = TRUE, !.lpc = "finally"])
    /\ UNCHANGED <<heap, backend>>
    /\ ConcUnchanged

\* The finally block on the objects the loop holds.
ConcFinally(r) ==
    /\ slots[r].lpc = "finally"
    /\ \E close_fails \in BOOLEAN, ev_fails \in BOOLEAN :
          LET unbound == slots[r].session = 0
              fb == FinallyBlock(IF unbound THEN "unbound" ELSE "open",
                                 close_fails \/ unbound, ev_fails)
              h1 == Close(heap, slots[r].session, Inv(r))
          IN  /\ heap' = IF fb.released
                          THEN Close(h1, slots[r].evaluator, Inv(r)) ELSE h1
              /\ SetSlot(r, [slots[r] EXCEPT
                               !.lpc = IF fb.raised \/ ~slots[r].returned
                                       THEN "raised" ELSE "returned"])
    /\ UNCHANGED backend
    /\ ConcUnchanged

\* run_in_executor returned in the handler of slot r.
ConcTaskReturned(r) ==
    /\ slots[r].pc = "running"
    /\ slots[r].lpc = "returned"
    /\ ~HandlerBlocked
    /\ IF slots[r].task_i < Len(slots[r].tasks)
       THEN SetSlot(r, [slots[r] EXCEPT
                         !.ndetails = @ + 1, !.task_i = @ + 1, !.lpc = "start",
                         !.step_index = 0, !.done = FALSE, !.returned = FALSE,
                         !.evaluator = 0, !.session = 0])
       ELSE SetSlot(r, [slots[r] EXCEPT
                         !.ndetails = @ + 1, !.pc = "responded", !.status = 200])
    /\ UNCHANGED <<heap, backend>>
    /\ ConcUnchanged

\* run_in_executor raised in the handler of slot r.
ConcTaskRaised(r) ==
    /\ slots[r].pc = "running"
    /\ slots[r].lpc = "raised"
    /\ ~HandlerBlocked
    /\ SetSlot(r, [slots[r] EXCEPT !.pc = "responded", !.status = 500])
    /\ UNCHANGED <<heap, backend>>
    /\ ConcUnchanged

ConcNext ==
    \/ Health
    \/ \E r \in Slots, req \in ConcRequests(variant) : ConcEvaluate(r, req)
    \/ \E r \in Slots : ConcLoopStart(r)
    \/ \E r \in Slots : ConcLoopEnter(r)
    \/ \E r \in Slots : ConcAgentCall(r)
    \/ \E r \in Slots : ConcStep(r)
    \/ \E r \in Slots : ConcLoopExit(r)
    \/ \E r \in Slots : ConcFinally(r)
    \/ \E r \in Slots : ConcTaskReturned(r)
    \/ \E r \in Slots : ConcTaskRaised(r)

ConcSpec == ConcInit /\ [][ConcNext]_vars

(***************************************************************************)
(* Properties                                                              *)
(***************************************************************************)
\* The request has been taken up by the handler.
Received == pc # "idle"

\* The current iteration is over: it came back to the while condition or
\* left the loop with an exception.
Iterated == last.agent # "none" /\ lpc # "step"

\* The current iteration stepped the evaluator and came back.
Stepped == Iterated /\ ~last.aborted

\* The agent call of the latest iteration failed.
AgentFailed == last.agent \in {"transport_error", "http_status", "bad_json"}

\* First entry of a list that is a well-formed action, NOOP when none is.
FirstValid(items) ==
    LET ok == {i \in 1..Len(items) : items[i] \in {"ClickAction", "WaitAction"}}
    IN  IF ok = {} THEN NOOP
        ELSE items[CHOOSE i \in ok : \A j \in ok : i <= j]

\* C1: every request with max_steps <= 0, zero included, is answered 400 and
\* never reaches the loop: no evaluator session is created and no request
\* is sent to the agent.
C1_NonPositiveRejected ==
    (Received /\ request.max_steps # None /\ request.max_steps[1] <= 0)
        => /\ pc = "responded"
           /\ status = 400
           /\ lpc = "idle"
           /\ ~evaluator.created
           /\ agent_calls = 0

\* C2: whenever the agent call of a step fails, the step is made with no
\* action: the evaluator is stepped with NOOP and the failure does not leave
\* the loop.
C2_AgentFailureAbsorbed ==
    (Iterated /\ AgentFailed) => last.applied = NOOP

\* C3: once a per-task evaluation has returned or raised, its evaluator
\* session has been released exactly once and its HTTP client is not left
\* open, also when closing the client failed.
C3_CleanupOnEveryExit ==
    (lpc \in {"returned", "raised"} /\ evaluator.created)
        => /\ evaluator.closes = 1
           /\ session # "open"

\* C3 witness: affine_env, reset raised before the client was opened, so
\* session.close() failed on the unbound name; the evaluator was released
\* and the call raised.
C3_Witness ==
    /\ variant = "affine_env"
    /\ lpc = "raised"
    /\ evaluator.resets = 1
    /\ session = "unbound"
    /\ evaluator.closes = 1

\* C4: the step counter starts at 0, stays within 0..max_steps, never
\* decreases during a task, grows by exactly one per completed evaluator
\* step, the loop body only runs while not done and below max_steps, and the
\* reported steps is the counter.
C4_StepCounter ==
    /\ [](/\ (lpc = "start" => step_index = 0)
          /\ (lpc # "idle" => (0 <= step_index /\ step_index <= max_steps))
          /\ (lpc \in {"while", "post", "step"} => step_index = evaluator.steps)
          /\ (result # None =>
                /\ result[1].steps = step_index
                /\ 0 <= result[1].steps
                /\ result[1].steps <= max_steps))
    /\ [][/\ (lpc' # "start" =>
                /\ step_index' \in {step_index, step_index + 1}
                /\ (step_index' = step_index + 1
                      <=> (lpc = "step" /\ lpc' = "while"
                           /\ evaluator'.steps = evaluator.steps + 1)))
          /\ (agent_calls' = agent_calls + 1 => (~done /\ step_index < max_steps))
          /\ ((lpc = "while" /\ (done \/ step_index >= max_steps))
                => (result' # None /\ lpc' = "finally"))]_vars

\* C4 witness: a task returned after using every step of a ceiling above 1.
C4_Witness ==
    /\ lpc = "returned"
    /\ max_steps > 1
    /\ result[1].steps = max_steps
    /\ ~done

\* C5 (as stated): after a step, done is the OR of the evaluator's success
\* and the done flag of the agent's response.
C5_DoneIsOr ==
    Stepped => (done <=> (score.success \/ last.body.done = "true"))

\* C5 (amended): affine_env ORs the two signals; src/env.py takes the
\* evaluator's success alone and ignores the agent's done flag.
C5_DoneByVariant ==
    Stepped =>
        /\ (variant = "affine_env"
              => (done <=> (score.success \/ last.body.done = "true")))
        /\ (variant = "env" => (done <=> score.success))

\* C5 witness: src/env.py stepped on a response carrying done = true and the
\* loop goes on.
C5_Witness ==
    /\ variant = "env"
    /\ Stepped
    /\ last.body.done = "true"
    /\ ~score.success
    /\ ~done
    /\ lpc = "while"

C7_UnreachableAgent ==
    (Iterated /\ hist.all_unreachable)
        => /\ last.applied = NOOP
           /\ hist.all_noop
           /\ ((lpc = "finally" /\ ~last.aborted) => result # None)
           /\ ((result # None /\ ~hist.ever_success)
                 => result[1].steps = max_steps)

\* C8 (src/env.py): each iteration steps the evaluator once, with the first
\* well-formed action of the agent's list; entries that cannot be parsed are
\* skipped, later actions are dropped, and NOOP is used when none is left.
C8_FirstActionOnly ==
    /\ []((variant = "env" /\ Iterated /\ last.agent = "ok"
             /\ last.body.actions.kind = "list")
            => last.applied = FirstValid(last.body.actions.items))
    /\ [][(variant = "env" /\ lpc = "step")
            => (last'.applied # "none" <=> evaluator'.steps = evaluator.steps + 1)]_vars
    /\ [](variant = "env" /\ lpc \in {"while", "post"}
            => evaluator.steps = agent_calls)

\* C8 witness: an unparseable entry was skipped and the entry after it
\* applied.
C8_Witness ==
    /\ variant = "env"
    /\ Stepped
    /\ last.body.actions.items = <<"UnknownAction", "WaitAction">>
    /\ last.applied = "WaitAction"

\* The agent answered with a JSON object holding no action in any shape.
NoActionOffered ==
    /\ Iterated
    /\ last.agent = "ok"
    /\ last.body.isobj
    /\ last.body.actions.kind \in {"absent", "null", "list"}
    /\ FirstValid(last.body.actions.items) = NOOP
    /\ last.body.action = "absent"
    /\ last.body.navigate_url \in {"absent", "null", ""}

\* C9: when a step yields no action, the evaluator is stepped with NOOP; the
\* loop is not left for lack of an action.
C9_NoopOnNoAction ==
    NoActionOffered => last.applied = NOOP

\* C10 (as stated): each of the three response shapes becomes the step's
\* action: the first of `actions`, the single `action`, and a navigate
\* action for `navigate_url`.
C10_ThreeShapes ==
    (Iterated /\ last.agent = "ok" /\ last.body.isobj)
        => /\ (last.body.actions.kind = "list"
                 /\ FirstValid(last.body.actions.items) # NOOP
                 => last.applied = FirstValid(last.body.actions.items))
           /\ (last.body.action # "absent" => last.applied = last.body.action)
           /\ (last.body.navigate_url = "http://target"
                 => last.applied = "NavigateAction")

\* C10 (amended): each implementation reads one shape.  src/env.py reads the
\* `actions` list only: a body whose actions member is absent, null or has
\* no well-formed entry gives a NOOP step whatever `action` or
\* `navigate_url` it carries.  affine_env reads `navigate_url` only: a
\* non-empty one becomes a navigate action, any other body raises before
\* the evaluator is stepped.
C10_OneShapePerVariant ==
    (Iterated /\ last.agent = "ok" /\ last.body.isobj)
        => /\ (variant = "env" /\ last.body.actions.kind # "number"
                 => last.applied = FirstValid(last.body.actions.items))
           /\ (variant = "affine_env"
                 => IF last.body.navigate_url = "http://target"
                    THEN last.applied = "NavigateAction"
                    ELSE last.applied = "none" /\ last.aborted)

\* C10 witness: src/env.py stepped with NOOP on a navigate_url response.
C10_Witness ==
    /\ variant = "env"
    /\ Stepped
    /\ last.body.navigate_url = "http://target"
    /\ last.applied = NOOP

\* C11: a 200 response holds one detail per selected task, in order;
\* evaluated is the number of details; total_score is the sum of the
\* details' scores; success_rate is the number of successful details over
\* the number of details, and 0.0 for an empty list.
C11_Aggregates ==
    (pc = "responded" /\ status = 200)
        => /\ response # None
           /\ LET r == response[1]
                   n == Len(r.details)
               IN  /\ n = Len(tasks)
                   /\ \A i \in 1..n : r.details[i].task_id = tasks[i]
                   /\ r.evaluated = n
                   /\ r.total_score =
                        Cardinality({<<i, k>> \in (1..n) \X (1..TotalTests) :
                                        k <= r.details[i].score})
                   /\ r.success_rate[2] > 0
                   /\ r.success_rate[1] * n =
                        Cardinality({i \in 1..n : r.details[i].success})
                            * r.success_rate[2]
           /\ success_rate(<<>>) = <<0, 1>>

\* C11 witness: a response over two tasks, one solved and one with partial
\* credit, whose total differs from the mean.
C11_Witness ==
    /\ pc = "responded"
    /\ status = 200
    /\ response[1].evaluated = 2
    /\ response[1].details[1].success
    /\ response[1].details[2].score = 1
    /\ response[1].total_score = TotalTests + 1
    /\ response[1].success_rate = <<1, 2>>

\* The canonical catalogue file parses and lists at least one task.
CatalogueLoaded ==
    fs.canonical.exists /\ fs.canonical.json /\ fs.canonical.tasks # <<>>

\* C12 (src/env.py): a request that passed the max_steps check and whose
\* task_id equals the id of no task of the loaded catalogue is answered 404;
\* no loop runs: no evaluator session, no agent request, no detail.
C12_UnknownTaskId ==
    (Received /\ variant = "env" /\ max_steps > 0 /\ CatalogueLoaded
       /\ request.task_id # None
       /\ \A i \in 1..Len(fs.canonical.tasks) :
             fs.canonical.tasks[i] # request.task_id[1])
        => /\ pc = "responded"
           /\ status = 404
           /\ lpc = "idle"
           /\ ~evaluator.created
           /\ agent_calls = 0
           /\ details = <<>>
           /\ response = None

\* C12 witness: the id of a task the one-task catalogue does not hold.
C12_Witness ==
    /\ variant = "env"
    /\ status = 404
    /\ request.task_id = Some("autobooks-demo-task-2-invalid")
    /\ fs.canonical.tasks = <<"autobooks-demo-task-1">>
    /\ ~evaluator.created

\* C13: a request that passed the max_steps check while the catalogue cannot
\* be loaded (no source file anywhere, the copy to the canonical location
\* failed, the file does not parse) or lists no task is answered 500; no
\* loop runs.
C13_CatalogueFailure ==
    (Received /\ max_steps > 0 /\ ~CatalogueLoaded)
        => /\ pc = "responded"
           /\ status = 500
           /\ lpc = "idle"
           /\ ~evaluator.created
           /\ agent_calls = 0
           /\ details = <<>>
           /\ response = None

\* C13 witness: a source file exists but the copy to the canonical location
\* failed.
C13_Witness ==
    /\ status = 500
    /\ ~fs.canonical.exists
    /\ fs.sibling.exists
    /\ ~fs.writable
    /\ ~evaluator.created

\* C14 (ConcSpec): in every state GET /health can be answered, and its
\* answer is 200 {"status": "ok"}; in every state the next /evaluate request
\* can be taken up, whatever loops are running.
C14_HealthAlways ==
    /\ ENABLED Health
    /\ (health # None =>
          /\ health[1].status_code = 200
          /\ health[1].body = [status |-> "ok"])
    /\ \A r \in Slots :
          (slots[r].pc = "idle" /\ \A q \in Slots : q < r => slots[q].pc # "idle")
              => ENABLED (\E req \in ConcRequests(variant) : ConcEvaluate(r, req))

\* C14 witness: /health was answered while two loops were running, one of
\* which is now waiting for the evaluator.
C14_Witness ==
    /\ health # None
    /\ health[1].loops >= 2
    /\ \E r \in Slots : slots[r].lpc = "step"

\* The loop invocation of slot r holds an evaluator session.
Holds(r) == slots[r].evaluator # 0 /\ LoopRunning(r)

\* Every object was only ever used by the invocation that constructed it,
\* and two running invocations hold different sessions and clients.
OwnSessionAndClient ==
    /\ \A i \in 1..Len(heap) : heap[i].users = {heap[i].owner}
    /\ \A r1, r2 \in Slots :
          (r1 # r2 /\ Holds(r1) /\ Holds(r2))
              => /\ slots[r1].evaluator # slots[r2].evaluator
                 /\ (slots[r1].session # 0 => slots[r1].session # slots[r2].session)

\* No backend event group is written by two invocations running at the
\* same time.
NoSharedBackendGroup ==
    \A r1, r2 \in Slots :
        (r1 # r2 /\ Holds(r1) /\ Holds(r2))
            => ~\E g \in DOMAIN backend : {Inv(r1), Inv(r2)} \subseteq backend[g]

C16_OneTaskAtATime ==
    /\ [](pc = "running" =>
            /\ task_i \in 1..Len(tasks)
            /\ Len(details) = task_i - 1
            /\ \A i \in 1..Len(details) : details[i].task_id = tasks[i])
    /\ []((pc = "responded" /\ status = 200) =>
            /\ Len(details) = Len(tasks)
            /\ \A i \in 1..Len(tasks) : details[i].task_id = tasks[i])
    /\ [][(pc = "running" /\ lpc' = "start") =>
            /\ lpc = "returned"
            /\ evaluator.closes = 1
            /\ session # "open"
            /\ task_i' = task_i + 1
            /\ details' = Append(details, result[1])
            /\ result[1].task_id = tasks[task_i]]_vars
    /\ [][(pc = "running" /\ pc' = "responded" /\ status' = 200) =>
            /\ lpc = "returned"
            /\ evaluator.closes = 1
            /\ task_i = Len(tasks)]_vars

\* C16 witness: the loop of the second task is running; the first task has
\* its detail.
C16_Witness ==
    /\ pc = "running"
    /\ Len(tasks) = 2
    /\ task_i = 2
    /\ lpc = "step"
    /\ Len(details) = 1
    /\ details[1].task_id = "autobooks-demo-task-1"

\* The values of the environment variable that are positive integers.
PositiveSettings == {<<Some("2"), 2>>}

\* The ceiling the environment gives: the variable's value when it is a
\* positive integer, 30 otherwise.
EnvironmentCeiling ==
    IF \E p \in PositiveSettings : p[1] = environ
    THEN (CHOOSE p \in PositiveSettings : p[1] = environ)[2]
    ELSE 30

\* C17: the handler's step ceiling is the request's max_steps when the
\* request gives one; otherwise it is AUTOPPIA_AFFINE_MAX_STEPS when that is
\* a positive integer and 30 when it is unset, empty, not a number, zero or
\* negative.
C17_StepCeiling ==
    Received =>
        /\ (request.max_steps = None => max_steps = EnvironmentCeiling)
        /\ (request.max_steps # None => max_steps = request.max_steps[1])

\* The evaluator reported success for the step made at step_index 0.
SolvedAtStepZero == evaluator.steps = 1 /\ step_index = 1 /\ score.success

\* C18: when the evaluator reports success after the step-0 action, whatever
\* the ceiling, the loop makes no further iteration: one agent request and
\* one evaluator step were made, the loop goes from its while condition to
\* its return statement, and the detail has steps = 1, success = true and
\* score = 1.0.
C18_SolvedAtStepZero ==
    /\ [](SolvedAtStepZero =>
            /\ max_steps > 0
            /\ done
            /\ agent_calls = 1
            /\ lpc \in {"while", "finally", "returned", "raised"}
            /\ (result # None =>
                  /\ result[1].steps = 1
                  /\ result[1].success
                  /\ result[1].score = TotalTests))
    /\ [][(SolvedAtStepZero /\ lpc = "while")
            => (lpc' = "finally" /\ result' # None /\ agent_calls' = agent_calls)]_vars

\* C18 witness: solved at step 0 under the default ceiling of 30.
C18_Witness ==
    /\ lpc = "returned"
    /\ max_steps = _DEFAULT_MAX_STEPS
    /\ SolvedAtStepZero
    /\ result[1].steps = 1
    /\ result[1].success
    /\ agent_calls = 1

\* The fallback file the loader is to take on file system f: the installed
\* package's file when the package resolves, else the sibling repository's,
\* else (affine_env) the nested repository's; Missing when none exists.
ExpectedSource(v, f) ==
    IF f.pkg_ok /\ f.pkg.exists THEN f.pkg
    ELSE IF f.sibling.exists THEN f.sibling
    ELSE IF v = "affine_env" /\ f.nested.exists THEN f.nested
    ELSE Missing

\* C19: whenever a request gets to the loader, (a) an existing canonical
\* file is used and no file is written; (b) otherwise the first existing
\* candidate, in the fixed order, is copied to the canonical location and
\* nothing else changes; (c) with no candidate the request fails and no
\* file is created; (d) whenever tasks are evaluated the canonical file
\* exists and is the catalogue used; (e) a catalogue with no task entry
\* fails the request.
C19_LoaderResolution ==
    [][(pc = "idle" /\ pc' # "idle" /\ max_steps' > 0) =>
        LET src == ExpectedSource(variant, fs)
        IN  /\ (fs.canonical.exists => fs' = fs)
            /\ (~fs.canonical.exists /\ src.exists /\ fs.writable
                  => fs' = [fs EXCEPT !.canonical = src])
            /\ (~fs.canonical.exists /\ ~src.exists
                  => (fs' = fs /\ pc' = "responded" /\ status' = 500))
            /\ ((pc' = "running" \/ status' = 404)
                  => /\ fs'.canonical.exists
                     /\ fs'.canonical.json
                     /\ (pc' = "running" /\ request'.task_id = None
                           => tasks' = fs'.canonical.tasks))
            /\ (fs'.canonical.exists /\ fs'.canonical.json
                   /\ fs'.canonical.tasks = <<>>
                  => (pc' = "responded" /\ status' = 500))]_vars

\* C19 witness: the canonical file was missing, the package's file and the
\* sibling's both existed, and the package's was copied and is evaluated.
C19_Witness ==
    /\ pc = "running"
    /\ fs.pkg_ok
    /\ fs.pkg = OneTask
    /\ fs.sibling = TwoTasks
    /\ fs.canonical = fs.pkg
    /\ tasks = fs.canonical.tasks

\* C20: per-task order of the evaluator calls.  reset is called once,
\* before any step and any agent request; every agent request and every step
\* happens after the reset and before the close; the k-th agent request
\* carries step_index k-1; close is called once, from the finally block;
\* a returned detail reports as many steps as step calls and agent requests
\* were made.
C20_CallOrder ==
    /\ [](/\ evaluator.resets <= 1
          /\ evaluator.closes <= 1
          /\ ((evaluator.steps > 0 \/ agent_calls > 0) => evaluator.resets = 1)
          /\ (evaluator.closes = 1 => (evaluator.resets = 1 /\ lpc \in {"returned", "raised"}))
          /\ ((lpc \in {"returned", "raised"} /\ evaluator.created)
                => (evaluator.resets = 1 /\ evaluator.closes = 1))
          /\ (lpc = "returned"
                => /\ evaluator.steps = result[1].steps
                   /\ agent_calls = result[1].steps))
    /\ [][/\ (evaluator'.resets = evaluator.resets + 1
                => (evaluator.steps = 0 /\ agent_calls = 0 /\ evaluator.closes = 0))
          /\ (agent_calls' = agent_calls + 1
                => /\ evaluator.resets = 1
                   /\ evaluator.closes = 0
                   /\ last'.sent = agent_calls
                   /\ evaluator.steps = agent_calls)
          /\ (evaluator'.steps = evaluator.steps + 1
                => /\ evaluator.resets = 1
                   /\ evaluator.closes = 0
                   /\ agent_calls = evaluator.steps + 1)
          /\ (evaluator'.closes = evaluator.closes + 1
                => (lpc = "finally" /\ evaluator'.steps = evaluator.steps
                    /\ agent_calls' = agent_calls))]_vars

\* C20 witness: a task returned after two agent requests and two steps, the
\* second request carrying step_index 1.
C20_Witness ==
    /\ lpc = "returned"
    /\ evaluator.resets = 1
    /\ evaluator.steps = 2
    /\ agent_calls = 2
    /\ last.sent = 1
    /\ evaluator.closes = 1
    /\ result[1].steps = 2

\* C21: the handler checks max_steps, then loads the catalogue, then
\* filters by task_id, and the first failing check decides the status.  A
\* negative max_steps is answered 400 with the file system untouched,
\* whatever the task_id and the catalogue; once max_steps passed, a
\* catalogue failure is answered 500 whatever the task_id; 404 is answered
\* only when max_steps passed, the catalogue loaded with at least one task
\* and none of them has the requested id.  No check that fails starts a
\* loop.
C21_ValidationOrder ==
    [][(pc = "idle" /\ pc' # "idle") =>
        /\ ((request'.max_steps # None /\ request'.max_steps[1] < 0)
              => (pc' = "responded" /\ status' = 400 /\ fs' = fs))
        /\ ((max_steps' > 0 /\ ~CatalogueLoaded')
              => (pc' = "responded" /\ status' = 500))
        /\ (status' = 404
              => /\ pc' = "responded"
                 /\ max_steps' > 0
                 /\ CatalogueLoaded'
                 /\ request'.task_id # None
                 /\ \A i \in 1..Len(fs'.canonical.tasks) :
                       fs'.canonical.tasks[i] # request'.task_id[1])
        /\ (pc' = "responded"
              => (status' \in {400, 404, 500} /\ lpc' = "idle"
                  /\ ~evaluator'.created /\ agent_calls' = 0))]_vars

\* C21 witness: a negative max_steps with an unknown task_id, on a file
\* system whose canonical file is missing while a fallback file exists: 400,
\* and the fallback was not copied.
C21_Witness ==
    /\ pc = "responded"
    /\ status = 400
    /\ request.max_steps = Some(0 - 1)
    /\ request.task_id = Some("no-such-task")
    /\ ~fs.canonical.exists
    /\ fs.pkg.exists
    /\ fs.writable

====
